---- MODULE Spec2Model ----
(***************************************************************************)
(* Presence and call-signaling relay of WaveNet-Backend (src/server.js).   *)
(*                                                                         *)
(* The state is the process-local presence map `onlineUsers`, the CallLog  *)
(* collection, the User collection (friend lists), the set of open socket  *)
(* connections and the handlers that are suspended at an `await`.          *)
(* Every synchronous segment of a socket handler is one atomic action      *)
(* (Node runs a segment to its next await without interleaving).  A        *)
(* database operation takes effect in the step in which the awaiting       *)
(* handler resumes.                                                        *)
(***************************************************************************)
EXTENDS Integers, Sequences, FiniteSets, TLC

\* ------------------------------------------------------------------ bounds
Users     == {"A", "B"}
Sockets   == {"s1", "s2"}
Infos     == {"p1", "p2"}          \* userInfo snapshots
CallTypes == {"audio", "video"}
Payloads  == {"x", "y"}            \* offer / answer / candidate / media-state bodies

\* No handler of the call ledger reads the profile, the call type or a relayed
\* body, so the full relay draws one value of each; the presence relation and the
\* scenario below draw all of them.
OneInfo    == {"p1"}
OneType    == {"audio"}
OnePayload == {"x"}

MaxClock   == 4     \* events received in one run
MaxCalls   == 2     \* CallLog documents
MaxPending == 1     \* handlers suspended at an await at the same time

\* ------------------------------------------------------------- constants
NoCall   == 0       \* a falsy / unmatched callId
NoTime   == 0       \* endTime not set
NoSock   == "none"
NoInfo   == "none"
NoUser   == "none"
HistoryLimit == 50  \* .limit(50) of the history query
NoEntry  == [userId |-> NoUser, socketId |-> NoSock, userInfo |-> NoInfo]

VARIABLES
  onlineUsers,  \* Map userId -> {socketId, userInfo}, in insertion order
  logs,         \* CallLog collection; a document's _id is its index
  users,        \* User collection: clerkId -> [exists, friends]
  conn,         \* socket id -> "open" | "closed"
  pending,      \* handlers suspended at an await
  now,          \* logical clock: the number of events received so far
  emitted       \* the messages emitted by the handler segment that ran last

vars == <<onlineUsers, logs, users, conn, pending, now, emitted>>

\* ------------------------------------------------------- the presence Map
MapHas(m, k) == \E i \in 1..Len(m) : m[i].userId = k

MapGet(m, k) ==
  IF MapHas(m, k) THEN m[CHOOSE i \in 1..Len(m) : m[i].userId = k] ELSE NoEntry

\* A variant that adds an entry without looking for the key.
MapSetAppend(m, k, sock, info) ==
  Append(m, [userId |-> k, socketId |-> sock, userInfo |-> info])

\* Map.prototype.set: an existing key keeps its position, a new one is appended.
MapSet(m, k, sock, info) ==
  LET e == [userId |-> k, socketId |-> sock, userInfo |-> info] IN
  IF MapHas(m, k)
    THEN [i \in 1..Len(m) |-> IF m[i].userId = k THEN e ELSE m[i]]
    ELSE Append(m, e)

MapDelete(m, k) == SelectSeq(m, LAMBDA e : e.userId # k)

MapKeys(m) == [i \in 1..Len(m) |-> m[i].userId]

\* --------------------------------------------------- the CallLog documents
NewCallLog(callerId, receiverId, callType, t) ==
  [callerId |-> callerId, receiverId |-> receiverId, callType |-> callType,
   startTime |-> t, endTime |-> NoTime, status |-> "missed"]

\* CallLog.findByIdAndUpdate(id, fields): no document matches -> nothing changes.
FindByIdAndUpdate(ls, id, fields) ==
  IF id \in 1..Len(ls)
    THEN [ls EXCEPT ![id] =
            [k \in DOMAIN ls[id] |->
               IF k \in DOMAIN fields THEN fields[k] ELSE ls[id][k]]]
    ELSE ls

\* The lifecycle state a document stands for.
State(log) ==
  CASE log.status = "missed"   /\ log.endTime = NoTime -> "pending"
    [] log.status = "missed"   /\ log.endTime # NoTime -> "missed"
    [] log.status = "accepted" /\ log.endTime = NoTime -> "active"
    [] log.status = "accepted" /\ log.endTime # NoTime -> "ended"
    [] log.status = "rejected" -> "rejected"
    [] log.status = "canceled" -> "canceled"

Terminal(log) == State(log) \in {"ended", "rejected", "canceled", "missed"}

\* ------------------------------------------------------------ messages
\* A message handed to the gateway: io.to(to).emit(ev, data); to = "all" for io.emit.
Msg(to, ev, data) == [to |-> to, ev |-> ev, data |-> data]

\* A running handler: the event, its sender, its payload, and what it has read.
Handler(op, pc, from, callerId, userId, callId, callType) ==
  [op |-> op, pc |-> pc, from |-> from, callerId |-> callerId,
   userId |-> userId, callId |-> callId, callType |-> callType,
   time |-> NoTime, sock |-> NoSock]

\* The callIds a client can name: none, or the id of a saved document.
CallIds == 0..Len(logs)

\* -------------------------------------------------------------- Init
FriendConfigs ==
  { [u \in Users |-> [exists |-> TRUE, friends |-> Users \ {u}]],
    [u \in Users |-> [exists |-> TRUE, friends |-> {}]],
    [u \in Users |-> [exists |-> (u = "A"), friends |-> Users \ {u}]] }

Init ==
  /\ onlineUsers = <<>>
  /\ logs = <<>>
  /\ users \in FriendConfigs
  /\ conn = [s \in Sockets |-> "open"]
  /\ pending = {}
  /\ now = 0
  /\ emitted = <<>>

\* An event arrives on an open connection; the logical clock advances.
Arrive(s) == conn[s] = "open" /\ now' = now + 1

\* ------------------------------------------------------------ user-online
\* A variant that broadcasts the keys read before the entry is set.
UserOnlineStale(s, userId, userInfo) ==
  /\ Arrive(s)
  /\ onlineUsers' = MapSet(onlineUsers, userId, s, userInfo)
  /\ emitted' = << Msg("all", "online-users", MapKeys(onlineUsers)) >>
  /\ UNCHANGED <<logs, users, conn, pending>>

UserOnline(s, userId, userInfo) ==
  /\ Arrive(s)
  /\ onlineUsers' = MapSet(onlineUsers, userId, s, userInfo)
  /\ emitted' = << Msg("all", "online-users", MapKeys(onlineUsers')) >>
  /\ UNCHANGED <<logs, users, conn, pending>>

\* -------------------------------------------------------------- call-user
\* server.js 145-149: the handler starts and awaits User.findOne.
CallUser(s, callerId, receiverId, callType) ==
  LET h == Handler("call-user", "findOne", s, callerId, receiverId,
                   NoCall, callType) IN
  /\ Arrive(s)
  /\ Cardinality(pending) < MaxPending
  /\ Len(logs) + Cardinality({p \in pending : p.op = "call-user"}) < MaxCalls
  /\ pending' = pending \cup {h}
  /\ emitted' = <<>>
  /\ UNCHANGED <<onlineUsers, logs, users, conn>>

IsFriend(receiverUser, callerId) ==
  receiverUser.exists /\ callerId \in receiverUser.friends

\* A variant that opens the session although the callee is absent.
CallUserCheckAbsent(h) ==
  /\ h \in pending /\ h.op = "call-user" /\ h.pc = "findOne"
  /\ IF ~IsFriend(users[h.userId], h.callerId)
       THEN /\ emitted' = << Msg(h.from, "call-error", <<"You can only call friends.">>) >>
            /\ pending' = pending \ {h}
       ELSE /\ pending' = (pending \ {h}) \cup
                 {[h EXCEPT !.pc = "save", !.time = now,
                            !.sock = MapGet(onlineUsers, h.userId).socketId]}
            /\ emitted' = <<>>
  /\ UNCHANGED <<onlineUsers, logs, users, conn, now>>

\* A variant without the friendship check.
CallUserCheckNoFriends(h) ==
  /\ h \in pending /\ h.op = "call-user" /\ h.pc = "findOne"
  /\ IF MapHas(onlineUsers, h.userId)
       THEN /\ pending' = (pending \ {h}) \cup
                 {[h EXCEPT !.pc = "save", !.time = now,
                            !.sock = MapGet(onlineUsers, h.userId).socketId]}
            /\ emitted' = <<>>
       ELSE /\ emitted' = << Msg(h.from, "call-error", <<"User is offline">>) >>
            /\ pending' = pending \ {h}
  /\ UNCHANGED <<onlineUsers, logs, users, conn, now>>

\* server.js 150-167 and 174-176: findOne has resolved; the friendship check, the
\* presence lookup, and either the construction of the document (startTime
\* defaults to Date.now) followed by `await log.save()`, or a call-error.
CallUserCheck(h) ==
  LET receiverData == MapGet(onlineUsers, h.userId) IN
  /\ h \in pending /\ h.op = "call-user" /\ h.pc = "findOne"
  /\ IF ~IsFriend(users[h.userId], h.callerId)
       THEN /\ emitted' = << Msg(h.from, "call-error", <<"You can only call friends.">>) >>
            /\ pending' = pending \ {h}
       ELSE IF MapHas(onlineUsers, h.userId)
         THEN /\ pending' = (pending \ {h}) \cup
                   {[h EXCEPT !.pc = "save", !.time = now,
                              !.sock = receiverData.socketId]}
              /\ emitted' = <<>>
         ELSE /\ emitted' = << Msg(h.from, "call-error", <<"User is offline">>) >>
              /\ pending' = pending \ {h}
  /\ UNCHANGED <<onlineUsers, logs, users, conn, now>>

\* server.js 167-173: the save has completed; incoming-call goes to the socket id
\* read before the await.
CallUserSaved(h) ==
  /\ h \in pending /\ h.op = "call-user" /\ h.pc = "save"
  /\ logs' = Append(logs, NewCallLog(h.callerId, h.userId, h.callType, h.time))
  /\ emitted' = << Msg(h.sock, "incoming-call",
                       <<h.callerId, h.callType, Len(logs')>>) >>
  /\ pending' = pending \ {h}
  /\ UNCHANGED <<onlineUsers, users, conn, now>>

\* ------------------------------------ call-accepted, call-rejected, cancel-call
\* The handler evaluates `new Date()` and awaits findByIdAndUpdate.
Lifecycle(op, s, userId, callId) ==
  LET h == Handler(op, "update", s, NoUser, userId, callId, "none") IN
  /\ Arrive(s)
  /\ Cardinality(pending) < MaxPending
  /\ pending' = pending \cup {[h EXCEPT !.time = now + 1]}
  /\ emitted' = <<>>
  /\ UNCHANGED <<onlineUsers, logs, users, conn>>

\* A variant that answers the sender instead of the named party.
ForwardToSender(h, ev, data) ==
  IF MapHas(onlineUsers, h.userId) THEN << Msg(h.from, ev, data) >> ELSE <<>>

\* The notification after the update: to the named party if it is present.
Forward(h, ev, data) ==
  IF MapHas(onlineUsers, h.userId)
    THEN << Msg(MapGet(onlineUsers, h.userId).socketId, ev, data) >>
    ELSE <<>>

\* A variant that commits the update only when the named party is present.
ResumeIfPresent(h, fields, ev) ==
  /\ h \in pending /\ h.pc = "update"
  /\ logs' = IF MapHas(onlineUsers, h.userId)
               THEN FindByIdAndUpdate(logs, h.callId, fields) ELSE logs
  /\ emitted' = Forward(h, ev, <<>>)
  /\ pending' = pending \ {h}
  /\ UNCHANGED <<onlineUsers, users, conn, now>>

Resume(h, fields, ev) ==
  /\ h \in pending /\ h.pc = "update"
  /\ logs' = FindByIdAndUpdate(logs, h.callId, fields)
  /\ emitted' = Forward(h, ev, <<>>)
  /\ pending' = pending \ {h}
  /\ UNCHANGED <<onlineUsers, users, conn, now>>

CallAccepted(s, callerId, callId) == Lifecycle("call-accepted", s, callerId, callId)

\* A variant that leaves the start clock at the creation time.
AcceptFieldsNoReset(h) == [status |-> "accepted"]

AcceptFields(h) == [status |-> "accepted", startTime |-> h.time]

CallAcceptedDone(h) ==
  h.op = "call-accepted" /\ Resume(h, AcceptFields(h), "call-accepted")

CallRejected(s, callerId, callId) == Lifecycle("call-rejected", s, callerId, callId)

CallRejectedDone(h) ==
  h.op = "call-rejected"
    /\ Resume(h, [status |-> "rejected", endTime |-> h.time], "call-rejected")

CancelCall(s, receiverId, callId) == Lifecycle("cancel-call", s, receiverId, callId)

CancelCallDone(h) ==
  h.op = "cancel-call"
    /\ Resume(h, [status |-> "canceled", endTime |-> h.time], "call-cancelled")

\* ----------------------------------------------------------------- end-call
\* `if (callId) await ...`: with a falsy callId the handler never suspends.
EndCall(s, targetId, callId) ==
  LET h == Handler("end-call", "update", s, NoUser, targetId, callId, "none") IN
  IF callId # NoCall
    THEN Lifecycle("end-call", s, targetId, callId)
    ELSE /\ Arrive(s)
         /\ emitted' = Forward(h, "end-call", <<>>)
         /\ UNCHANGED <<onlineUsers, logs, users, conn, pending>>

EndCallDone(h) ==
  h.op = "end-call" /\ Resume(h, [endTime |-> h.time], "end-call")

\* ------------------- toggle-media, webrtc-offer, webrtc-answer, ice-candidate
\* A variant that forwards the event without its body.
RelayBare(op, ev, s, targetId, payload) ==
  LET h == Handler(op, "done", s, NoUser, targetId, NoCall, "none") IN
  /\ Arrive(s)
  /\ emitted' = Forward(h, ev, <<>>)
  /\ UNCHANGED <<onlineUsers, logs, users, conn, pending>>

Relay(op, ev, s, targetId, payload) ==
  LET h == Handler(op, "done", s, NoUser, targetId, NoCall, "none") IN
  /\ Arrive(s)
  /\ emitted' = Forward(h, ev, <<payload>>)
  /\ UNCHANGED <<onlineUsers, logs, users, conn, pending>>

ToggleMedia(s, targetId, payload) ==
  Relay("toggle-media", "remote-media-state", s, targetId, payload)

WebrtcOffer(s, target, offer) == Relay("webrtc-offer", "webrtc-offer", s, target, offer)

WebrtcAnswer(s, target, answer) ==
  Relay("webrtc-answer", "webrtc-answer", s, target, answer)

IceCandidate(s, target, candidate) ==
  Relay("ice-candidate", "ice-candidate", s, target, candidate)

\* --------------------------------------------------------------- disconnect
\* The loop deletes the first entry, in insertion order, whose socketId matches.
FirstOf(m, s) ==
  IF \E i \in 1..Len(m) : m[i].socketId = s
    THEN m[CHOOSE i \in 1..Len(m) :
              m[i].socketId = s /\ \A j \in 1..(i - 1) : m[j].socketId # s].userId
    ELSE NoUser

\* A variant that resolves the removed user's unanswered sessions.
DisconnectSweep(s) ==
  LET uid == FirstOf(onlineUsers, s) IN
  /\ Arrive(s)
  /\ conn' = [conn EXCEPT ![s] = "closed"]
  /\ IF uid # NoUser
       THEN /\ onlineUsers' = MapDelete(onlineUsers, uid)
            /\ emitted' = << Msg("all", "online-users", MapKeys(onlineUsers')) >>
            /\ logs' = [i \in 1..Len(logs) |->
                          IF uid \in {logs[i].callerId, logs[i].receiverId}
                               /\ logs[i].endTime = NoTime
                            THEN [logs[i] EXCEPT !.endTime = now + 1]
                            ELSE logs[i]]
       ELSE /\ onlineUsers' = onlineUsers
            /\ emitted' = <<>>
            /\ logs' = logs
  /\ UNCHANGED <<users, pending>>

\* A variant that broadcasts the roster at every close.
DisconnectAnnounce(s) ==
  /\ Arrive(s)
  /\ conn' = [conn EXCEPT ![s] = "closed"]
  /\ onlineUsers' = MapDelete(onlineUsers, FirstOf(onlineUsers, s))
  /\ emitted' = << Msg("all", "online-users", MapKeys(onlineUsers')) >>
  /\ UNCHANGED <<logs, users, pending>>

Disconnect(s) ==
  /\ Arrive(s)
  /\ conn' = [conn EXCEPT ![s] = "closed"]
  /\ IF FirstOf(onlineUsers, s) # NoUser
       THEN /\ onlineUsers' = MapDelete(onlineUsers, FirstOf(onlineUsers, s))
            /\ emitted' = << Msg("all", "online-users", MapKeys(onlineUsers')) >>
       ELSE /\ onlineUsers' = onlineUsers
            /\ emitted' = <<>>
  /\ UNCHANGED <<logs, users, pending>>

\* ------------------------------------------------------ GET /api/history/:userId
\* CallLog.find({$or: [{callerId}, {receiverId}]}): the ids of the matching documents.
HistoryMatch(userId) ==
  {i \in 1..Len(logs) : userId \in {logs[i].callerId, logs[i].receiverId}}

\* .sort({ startTime: -1 }): descending startTime; documents with equal startTime
\* come in any order.
HistorySorted(r) ==
  \A p \in 1..Len(r), q \in 1..Len(r) :
    p < q => logs[r[p]].startTime >= logs[r[q]].startTime

\* The responses the query can produce: the matching documents, sorted, cut at
\* the limit.
GetHistory(userId) ==
  LET M == HistoryMatch(userId)
      n == Cardinality(M)
      k == IF n < HistoryLimit THEN n ELSE HistoryLimit
  IN { SubSeq(r, 1, k) :
         r \in { f \in [1..n -> M] :
                   /\ \A p \in 1..n, q \in 1..n : p # q => f[p] # f[q]
                   /\ HistorySorted(f) } }

\* --------------------------------------------------------------------- Next
\* A run receives at most MaxClock events.
Budget == now < MaxClock

Next ==
  \/ Budget /\ \E s \in Sockets, u \in Users, i \in OneInfo : UserOnline(s, u, i)
  \/ Budget /\ \E s \in Sockets, c \in Users, r \in Users, ct \in OneType :
                 CallUser(s, c, r, ct)
  \/ \E h \in pending : CallUserCheck(h)
  \/ \E h \in pending : CallUserSaved(h)
  \/ Budget /\ \E s \in Sockets, u \in Users, id \in CallIds : CallAccepted(s, u, id)
  \/ \E h \in pending : CallAcceptedDone(h)
  \/ Budget /\ \E s \in Sockets, u \in Users, id \in CallIds : CallRejected(s, u, id)
  \/ \E h \in pending : CallRejectedDone(h)
  \/ Budget /\ \E s \in Sockets, u \in Users, id \in CallIds : CancelCall(s, u, id)
  \/ \E h \in pending : CancelCallDone(h)
  \/ Budget /\ \E s \in Sockets, u \in Users, id \in CallIds : EndCall(s, u, id)
  \/ \E h \in pending : EndCallDone(h)
  \/ Budget /\ \E s \in Sockets, u \in Users, p \in OnePayload : ToggleMedia(s, u, p)
  \/ Budget /\ \E s \in Sockets, u \in Users, p \in OnePayload : WebrtcOffer(s, u, p)
  \/ Budget /\ \E s \in Sockets, u \in Users, p \in OnePayload : WebrtcAnswer(s, u, p)
  \/ Budget /\ \E s \in Sockets, u \in Users, p \in OnePayload : IceCandidate(s, u, p)
  \/ Budget /\ \E s \in Sockets : Disconnect(s)

Spec == Init /\ [][Next]_vars

\* A database operation that was issued completes, and its handler resumes.
Resumes ==
  \E h \in pending :
    \/ CallUserCheck(h) \/ CallUserSaved(h) \/ CallAcceptedDone(h)
    \/ CallRejectedDone(h) \/ CancelCallDone(h) \/ EndCallDone(h)

FairSpec == Spec /\ WF_vars(Resumes)

\* ------------------------------------------ presence events only, all profiles
NextPresence ==
  \/ Budget /\ \E s \in Sockets, u \in Users, i \in Infos : UserOnline(s, u, i)
  \/ Budget /\ \E s \in Sockets : Disconnect(s)

SpecPresence == Init /\ [][NextPresence]_vars

\* ------------------------------------- presence and relay events, all bodies
NextRelay ==
  \/ Budget /\ \E s \in Sockets, u \in Users, i \in OneInfo : UserOnline(s, u, i)
  \/ Budget /\ \E s \in Sockets, u \in Users, p \in Payloads : ToggleMedia(s, u, p)
  \/ Budget /\ \E s \in Sockets, u \in Users, p \in Payloads : WebrtcOffer(s, u, p)
  \/ Budget /\ \E s \in Sockets, u \in Users, p \in Payloads : WebrtcAnswer(s, u, p)
  \/ Budget /\ \E s \in Sockets, u \in Users, p \in Payloads : IceCandidate(s, u, p)
  \/ Budget /\ \E s \in Sockets : Disconnect(s)

SpecRelay == Init /\ [][NextRelay]_vars

\* ------------------------------------------------------ the happy-path scenario
\* Two users announce presence on two connections; one of them calls the other
\* from its own connection; when that handler has finished the callee accepts
\* from its connection; when that has finished the caller ends the call.
SocketOf(u) == MapGet(onlineUsers, u).socketId

HappyOnline(s, u, i) ==
  /\ now < 2
  /\ ~MapHas(onlineUsers, u)
  /\ \A k \in 1..Len(onlineUsers) : onlineUsers[k].socketId # s
  /\ UserOnline(s, u, i)

HappyCall(a, b, ct) ==
  /\ now = 2 /\ a # b
  /\ CallUser(SocketOf(a), a, b, ct)

HappyAccept ==
  /\ now = 3 /\ pending = {} /\ Len(logs) = 1
  /\ CallAccepted(SocketOf(logs[1].receiverId), logs[1].callerId, 1)

HappyEnd ==
  /\ now = 4 /\ pending = {} /\ Len(logs) = 1
  /\ EndCall(SocketOf(logs[1].callerId), logs[1].receiverId, 1)

NextHappy ==
  \/ \E s \in Sockets, u \in Users, i \in Infos : HappyOnline(s, u, i)
  \/ \E a \in Users, b \in Users, ct \in CallTypes : HappyCall(a, b, ct)
  \/ \E h \in pending : CallUserCheck(h)
  \/ \E h \in pending : CallUserSaved(h)
  \/ HappyAccept
  \/ \E h \in pending : CallAcceptedDone(h)
  \/ HappyEnd
  \/ \E h \in pending : EndCallDone(h)

SpecHappy == Init /\ [][NextHappy]_vars

\* =================================================================== claims
Ids == 1..Len(logs)

\* C1: a session in a terminal state (rejected, canceled, missed, ended) keeps its
\* state and its endTime whatever accept / reject / cancel / end event names it.
C1_TerminalAbsorbing ==
  [][\A i \in Ids :
       Terminal(logs[i]) =>
         /\ State(logs'[i]) = State(logs[i])
         /\ logs'[i].endTime = logs[i].endTime]_vars

\* C2: call-accepted, call-rejected and cancel-call naming an active session leave
\* its document unchanged (no second reset of the start clock, no move to
\* rejected or canceled).
C2_PendingRequired ==
  [][\A h \in pending :
       ( /\ h.callId \in Ids
         /\ State(logs[h.callId]) = "active"
         /\ (CallAcceptedDone(h) \/ CallRejectedDone(h) \/ CancelCallDone(h)) )
       => logs' = logs]_vars

\* C3: when call-user reaches its presence lookup and the callee has no entry, the
\* handler ends there: no document is created, and the only message emitted is
\* one call-error to the sending connection.
C3_AbsentCallee ==
  [][\A h \in pending :
       (CallUserCheck(h) /\ ~MapHas(onlineUsers, h.userId)) =>
         /\ logs' = logs
         /\ pending' = pending \ {h}
         /\ Len(emitted') = 1
         /\ emitted'[1].ev = "call-error"
         /\ emitted'[1].to = h.from]_vars

C3_Witness ==
  /\ logs = <<>>
  /\ pending = {}
  /\ onlineUsers = <<>>
  /\ \E s \in Sockets : emitted = << Msg(s, "call-error", <<"User is offline">>) >>

\* C4: call-accepted on a pending session makes it active (status accepted) and
\* sets startTime to the time of the acceptance, strictly later than the time the
\* document was created with.
C4_AcceptPending ==
  [][\A h \in pending :
       ( /\ CallAcceptedDone(h)
         /\ h.callId \in Ids
         /\ State(logs[h.callId]) = "pending" )
       => /\ State(logs'[h.callId]) = "active"
          /\ logs'[h.callId].status = "accepted"
          /\ logs'[h.callId].startTime = h.time
          /\ logs'[h.callId].startTime > logs[h.callId].startTime]_vars

C4_Witness ==
  \E i \in Ids :
    /\ State(logs[i]) = "active"
    /\ logs[i].startTime = now
    /\ pending = {}
    /\ \E s \in Sockets : emitted = << Msg(s, "call-accepted", <<>>) >>

\* C5 (as stated): in the happy-path scenario the call-user delivers incoming-call
\* to the callee, the call-accepted delivers call-accepted to the caller, the
\* end-call delivers end-call to the callee, and the session is then ended with
\* its endTime set.
CallDelivered ==
  /\ Len(logs) = 1
  /\ logs[1].callerId # logs[1].receiverId
  /\ \E ct \in CallTypes :
       emitted = << Msg(SocketOf(logs[1].receiverId), "incoming-call",
                        <<logs[1].callerId, ct, 1>>) >>

AcceptDelivered ==
  /\ Len(logs) = 1
  /\ emitted = << Msg(SocketOf(logs[1].callerId), "call-accepted", <<>>) >>

EndDelivered ==
  /\ Len(logs) = 1
  /\ emitted = << Msg(SocketOf(logs[1].receiverId), "end-call", <<>>) >>
  /\ State(logs[1]) = "ended"
  /\ logs[1].endTime # NoTime

C5_HappyPath ==
  /\ (now = 3 /\ pending = {}) => CallDelivered
  /\ (now = 4 /\ pending = {}) => AcceptDelivered
  /\ (now = 5 /\ pending = {}) => EndDelivered

\* C5 (amended): the same, provided the callee is in the User collection and
\* lists the caller as a friend; otherwise the caller gets a call-error and no
\* session exists.
CallRefused ==
  /\ logs = <<>>
  /\ \E a \in Users, b \in Users :
       /\ a # b /\ MapHas(onlineUsers, a) /\ MapHas(onlineUsers, b)
       /\ ~IsFriend(users[b], a)
       /\ emitted = << Msg(SocketOf(a), "call-error", <<"You can only call friends.">>) >>

C5_HappyPathFriends ==
  /\ (now = 3 /\ pending = {}) =>
       \/ CallDelivered /\ IsFriend(users[logs[1].receiverId], logs[1].callerId)
       \/ CallRefused
  /\ (now = 4 /\ pending = {}) => AcceptDelivered
  /\ (now = 5 /\ pending = {}) => EndDelivered

C5_Witness == now = 5 /\ pending = {} /\ EndDelivered

\* C6: between one pair of users at most one session is pending or active.
SamePair(a, b) ==
  {a.callerId, a.receiverId} = {b.callerId, b.receiverId}

C6_SingleFlight ==
  \A i \in Ids, j \in Ids :
    (i # j /\ SamePair(logs[i], logs[j])) =>
      (Terminal(logs[i]) \/ Terminal(logs[j]))

\* C7: every session that is opened eventually is in a terminal state for good.
TerminalAt(i) == i \in Ids /\ Terminal(logs[i])

C7_EventuallyTerminal ==
  \A i \in 1..MaxCalls : [](i \in Ids => <>[]TerminalAt(i))

\* C8: a relayed event is not forwarded ahead of an earlier event of the same
\* connection to the same target.  `h` is the handler of a lifecycle event of
\* that connection, naming a session, still suspended at its await: it arrived
\* before the relayed event, and it forwards to the same socket when it resumes.
RelayFrom(s, u) ==
  \E p \in Payloads :
    ToggleMedia(s, u, p) \/ WebrtcOffer(s, u, p) \/ WebrtcAnswer(s, u, p)
      \/ IceCandidate(s, u, p)

C8_SenderOrder ==
  [][\A h \in pending, s \in Sockets, u \in Users :
       ( /\ h.from = s /\ h.userId = u /\ h.pc = "update" /\ h.callId \in Ids
         /\ RelayFrom(s, u) )
       => emitted' = <<>>]_vars

\* C9: the presence map never holds two entries of one userId, and after a
\* user-online the user's entry carries the announcing connection and profile.
EntriesOf(m, u) == {k \in 1..Len(m) : m[k].userId = u}

C9_LastWriterWins ==
  [][ /\ \A u \in Users : Cardinality(EntriesOf(onlineUsers', u)) <= 1
      /\ \A s \in Sockets, u \in Users, i \in Infos :
           UserOnline(s, u, i) =>
             /\ Cardinality(EntriesOf(onlineUsers', u)) = 1
             /\ MapGet(onlineUsers', u) =
                  [userId |-> u, socketId |-> s, userInfo |-> i] ]_vars

C9_Witness ==
  /\ now = 2
  /\ \A s \in Sockets : conn[s] = "open"
  /\ onlineUsers = << [userId |-> "A", socketId |-> "s2", userInfo |-> "p2"] >>

\* C10: a disconnect leaves every CallLog document as it was.
C10_DisconnectKeepsLedger ==
  [][\A s \in Sockets : Disconnect(s) => logs' = logs]_vars

C10_Witness ==
  /\ \E i \in Ids : State(logs[i]) = "pending"
  /\ \E s \in Sockets : conn[s] = "closed"
  /\ emitted = << Msg("all", "online-users", <<>>) >>

\* C11: the close of a connection that no entry of the presence map refers to
\* (its user re-announced on another connection, or it never announced) leaves
\* the map as it was and emits nothing; and a close never touches the entry of a
\* user who is registered on another connection.
C11_StaleClose ==
  [][\A s \in Sockets :
       Disconnect(s) =>
         /\ (FirstOf(onlineUsers, s) = NoUser) =>
               (onlineUsers' = onlineUsers /\ emitted' = <<>>)
         /\ \A u \in Users :
               (MapHas(onlineUsers, u) /\ MapGet(onlineUsers, u).socketId # s) =>
                 MapGet(onlineUsers', u) = MapGet(onlineUsers, u)]_vars

C11_Witness ==
  /\ now = 3
  /\ conn = [s \in Sockets |-> IF s = "s1" THEN "closed" ELSE "open"]
  /\ \E i \in Infos :
       onlineUsers = << [userId |-> "A", socketId |-> "s2", userInfo |-> i] >>
  /\ emitted = <<>>

\* C12: call-accepted, call-rejected, call-cancelled or end-call is forwarded only
\* when the event named an existing session in the required state (pending for
\* accept / reject / cancel, active for end); otherwise no message is sent.
Required(op) == IF op = "end-call" THEN "active" ELSE "pending"

C12_ForwardOnSuccess ==
  [][\A h \in pending :
       ( /\ CallAcceptedDone(h) \/ CallRejectedDone(h) \/ CancelCallDone(h)
              \/ EndCallDone(h)
         /\ (h.callId \notin Ids \/ State(logs[h.callId]) # Required(h.op)) )
       => emitted' = <<>>]_vars

\* C13: call-accepted, call-rejected or cancel-call on a pending session whose
\* other party has no presence entry still commits the status, and sends nothing.
OtherParty(h) ==
  IF h.op = "cancel-call" THEN logs[h.callId].receiverId ELSE logs[h.callId].callerId

StatusOf(op) ==
  CASE op = "call-accepted" -> "accepted"
    [] op = "call-rejected" -> "rejected"
    [] op = "cancel-call"   -> "canceled"

C13_AbsentPartyCommits ==
  [][\A h \in pending :
       ( /\ CallAcceptedDone(h) \/ CallRejectedDone(h) \/ CancelCallDone(h)
         /\ h.callId \in Ids
         /\ State(logs[h.callId]) = "pending"
         /\ h.userId = OtherParty(h)
         /\ ~MapHas(onlineUsers, h.userId) )
       => /\ logs'[h.callId].status = StatusOf(h.op)
          /\ emitted' = <<>>]_vars

C13_Witness ==
  /\ pending = {}
  /\ emitted = <<>>
  /\ \E i \in Ids :
       /\ logs[i].status = "rejected"
       /\ logs[i].endTime = now
       /\ ~MapHas(onlineUsers, logs[i].callerId)

\* C14: a relay event is forwarded to the target's current socket, with its body,
\* exactly when the target has a presence entry; otherwise nothing is emitted;
\* either way the presence map and the CallLog documents stay as they were.
RelayOutcome(ev, u, p) ==
  /\ emitted' = IF MapHas(onlineUsers, u)
                  THEN << Msg(MapGet(onlineUsers, u).socketId, ev, <<p>>) >>
                  ELSE <<>>
  /\ onlineUsers' = onlineUsers
  /\ logs' = logs

C14_RelayForward ==
  [][\A s \in Sockets, u \in Users, p \in Payloads :
       /\ ToggleMedia(s, u, p)  => RelayOutcome("remote-media-state", u, p)
       /\ WebrtcOffer(s, u, p)  => RelayOutcome("webrtc-offer", u, p)
       /\ WebrtcAnswer(s, u, p) => RelayOutcome("webrtc-answer", u, p)
       /\ IceCandidate(s, u, p) => RelayOutcome("ice-candidate", u, p)]_vars

C14_Witness ==
  /\ MapHas(onlineUsers, "B")
  /\ emitted = << Msg(MapGet(onlineUsers, "B").socketId, "webrtc-offer", <<"y">>) >>

\* C15 (as stated): every user-online, and every disconnect that removes an
\* entry, broadcasts the {userId, profile} pairs of the map right after the
\* change.
ItemId(x) == IF x \in Users THEN x ELSE x.userId

ItemInfo(x) == IF x \in Users THEN NoInfo ELSE x.userInfo

IsRoster(m, withInfo) ==
  /\ Len(emitted') = 1
  /\ emitted'[1].to = "all"
  /\ emitted'[1].ev = "online-users"
  /\ Len(emitted'[1].data) = Len(m)
  /\ \A k \in 1..Len(m) :
       /\ ItemId(emitted'[1].data[k]) = m[k].userId
       /\ withInfo => ItemInfo(emitted'[1].data[k]) = m[k].userInfo

C16_HistoryNewestFirst ==
  \A u \in Users :
    \A r \in GetHistory(u) :
      /\ Len(r) <= 50
      /\ \A p \in 1..Len(r) : u \in {logs[r[p]].callerId, logs[r[p]].receiverId}
      /\ \A p \in 1..Len(r), q \in 1..Len(r) : p < q => r[p] > r[q]

\* C17: once the disconnect of a connection has been processed, no entry of the
\* presence map carries that connection.
C17_NoEntryAfterClose ==
  \A s \in Sockets :
    conn[s] = "closed" => \A k \in 1..Len(onlineUsers) : onlineUsers[k].socketId # s

\* C18: incoming-call is sent to the socket the presence map holds for the callee
\* at the moment of sending, and the document is created only for a callee who
\* is present then.
C18_CurrentEndpoint ==
  [][\A h \in pending :
       CallUserSaved(h) =>
         /\ MapHas(onlineUsers, h.userId)
         /\ emitted'[1].to = MapGet(onlineUsers, h.userId).socketId]_vars

\* C19: a document changes on call-accepted / call-rejected only when the sender
\* is the connection registered for its callee, on cancel-call only when it is
\* the one registered for its caller, on end-call only when it is registered for
\* either of them.
Drivers(h) ==
  LET log == logs[h.callId] IN
  CASE h.op \in {"call-accepted", "call-rejected"} -> {log.receiverId}
    [] h.op = "cancel-call" -> {log.callerId}
    [] h.op = "end-call"    -> {log.callerId, log.receiverId}

C19_PartiesOnly ==
  [][\A h \in pending :
       ( /\ CallAcceptedDone(h) \/ CallRejectedDone(h) \/ CancelCallDone(h)
              \/ EndCallDone(h)
         /\ h.callId \in Ids
         /\ \A u \in Drivers(h) : MapGet(onlineUsers, u).socketId # h.from )
       => logs' = logs]_vars

\* C20: call-user goes on to create a document only when the callee is in the
\* User collection and lists the caller as a friend at the check; otherwise the
\* handler ends with one call-error to the sender, whether or not the callee is
\* online.  A document is created, and incoming-call sent, only by a handler that
\* passed the check.
C20_FriendsOnly ==
  [][ /\ \A h \in pending :
           (CallUserCheck(h) /\ ~IsFriend(users[h.userId], h.callerId)) =>
             /\ emitted' = << Msg(h.from, "call-error", <<"You can only call friends.">>) >>
             /\ logs' = logs
             /\ pending' = pending \ {h}
      /\ \A g \in pending' \ pending :
           g.pc = "save" =>
             \E h \in pending :
               CallUserCheck(h) /\ IsFriend(users[h.userId], h.callerId)
      /\ (logs' # logs /\ Len(logs') > Len(logs)) =>
           \E h \in pending : h.pc = "save" /\ CallUserSaved(h)
      /\ (\E k \in 1..Len(emitted') : emitted'[k].ev = "incoming-call") =>
           \E h \in pending : h.pc = "save" /\ CallUserSaved(h) ]_vars

C20_Witness ==
  /\ logs = <<>>
  /\ pending = {}
  /\ \E s \in Sockets, b \in Users :
       /\ MapHas(onlineUsers, b)
       /\ users[b].exists /\ users[b].friends = {}
       /\ MapGet(onlineUsers, b).socketId # s
       /\ emitted = << Msg(s, "call-error", <<"You can only call friends.">>) >>
====
